---- MODULE Spec2Model ----
(***************************************************************************)
(* Device discovery of the PowerTag driver (drivers/powertag/driver.ts and *)
(* lib/ModbusHelpers.ts): one discoverDevices run over one Modbus-TCP      *)
(* session.  A step of the model is one continuation of the async code:    *)
(* everything the code does between the completion of one awaited promise  *)
(* and the next await.                                                      *)
(***************************************************************************)
EXTENDS Integers, Sequences, FiniteSets, TLC

\* ------------------------------------------------------------------------
\* Bounds of the environment (the gateway), not of the code.
\* ------------------------------------------------------------------------
\* At most this many address-table slots hold a value other than 0.
MaxOccupied == 3
\* Only the first PopulatedSpan unit ids of each scanned range may answer
\* the device-type read with a known type.
PopulatedSpan == 1
\* Calls of a device's poll or write functions, of validateGateway, and of
\* the handlers of one pairing session.
MaxPolls == 2
MaxValidations == 2
MaxPairCalls == 3
Hosts == {"192.168.1.10", "192.168.1.11", "gateway.local", ""}
Ports == {502, 503, 0}
SocketErrors == {"ECONNREFUSED", "EHOSTUNREACH", "ETIMEDOUT"}
\* Values a device may hold in the registers of a block.
PollVals == {0, 1, 65535}
\* The gateway answers with a known type only while fewer devices are found.
MaxDevices == 2
\* Number of registers of a truncated (short) table response.
ShortRegs == 100

\* Slots of the address table the gateway may populate (chunk boundaries).
ProbeSlots == {1, 25, 26, 51, 99}
\* Values the gateway may store in the first register of a probed slot.
SlotVals == {65535, 42, 150}
\* Value of the four registers of a slot that do not hold the unit id.
Filler == 7
\* Values the gateway may answer to a device-type read.
TypeVals == {0, 65535, 45, 9999}
FailKinds == {"timeout", "exception"}

\* ------------------------------------------------------------------------
\* Program constants.
\* ------------------------------------------------------------------------
REG_CURRENT_L1 == 2999
REG_VOLTAGE_LN_1 == 3027
REG_VOLTAGE_LL_1 == 3019
REG_POWER_L1 == 3053
REG_POWER_FACTOR == 3083
REG_FREQUENCY == 3109
REG_TEMPERATURE == 3131
REG_ENERGY_TOTAL == 3203
REG_HEATTAG_TEMP == 4001
REG_HEATTAG_HUMIDITY == 4007
REG_HEATTAG_ALARM == 3323
REG_DI1_STATUS == 34065
REG_DI2_STATUS == 34165
REG_DO1_CMD == 37051
REG_DO1_STATUS == 37052
REG_DEVICE_TYPE == 31024
REG_DEVICE_NAME == 31000
REG_PAS_DEVICE_ADDRESS == 504
REG_COMMERCIAL_REF == 31060
GatewayUnit == 255
InitialUnit == 1
ChunkRegs == 125
LastChunkRegs == 120
SlotCount == 99
SlotRegs == 5
NameRegs == 10
RefRegs == 16

\* The three scanUnitRange calls of discoverDevices, in call order.
ScanRanges ==
  << [startId |-> 150, endId |-> 170, max |-> 10],
     [startId |-> 100, endId |-> 150, max |-> 3],
     [startId |-> 170, endId |-> 200, max |-> 3] >>

\* ------------------------------------------------------------------------
\* Byte buffers and their decoding (Buffer.readUInt16BE, parseAsciiBuffer).
\* ------------------------------------------------------------------------
Zeros(n) == [i \in 1..n |-> 0]

Pad(s, n) == [i \in 1..n |-> IF i <= Len(s) THEN s[i] ELSE 0]

\* Buffer.readUInt16BE(off): a RangeError unless off + 2 <= length.
CanReadUInt16BE(buf, off) == off >= 0 /\ off + 2 <= Len(buf)

ReadUInt16BE(buf, off) == buf[off + 1] * 256 + buf[off + 2]

\* The bytes of a sequence of 16-bit registers, big-endian.
RegsToBytes(regs) ==
  [i \in 1..(2 * Len(regs)) |->
     IF i % 2 = 1 THEN regs[(i + 1) \div 2] \div 256 ELSE regs[i \div 2] % 256]

\* String.prototype.trim() white space among the byte values.
IsSpace(b) == b \in {9, 10, 11, 12, 13, 32, 160}

RECURSIVE UpToZero(_, _)
UpToZero(buf, i) ==
  IF i > Len(buf) \/ buf[i] = 0 THEN <<>>
  ELSE <<buf[i]>> \o UpToZero(buf, i + 1)

RECURSIVE TrimLeft(_)
TrimLeft(s) ==
  IF s # <<>> /\ IsSpace(Head(s)) THEN TrimLeft(Tail(s)) ELSE s

RECURSIVE TrimRight(_)
TrimRight(s) ==
  IF s # <<>> /\ IsSpace(s[Len(s)]) THEN TrimRight(SubSeq(s, 1, Len(s) - 1)) ELSE s

Trim(s) == TrimRight(TrimLeft(s))

parseAsciiBuffer(buf) == Trim(UpToZero(buf, 1))

RECURSIVE Digits(_)
Digits(n) == IF n < 10 THEN <<48 + n>> ELSE Digits(n \div 10) \o <<48 + (n % 10)>>


\* ------------------------------------------------------------------------
\* Model registry (lib/PowerTagRegistry): type id, commercial reference and
\* display name of the known models.
\* ------------------------------------------------------------------------
Ref1541 == <<65, 57, 77, 69, 77, 49, 53, 52, 49>>
Ref1520 == <<65, 57, 77, 69, 77, 49, 53, 50, 48>>

POWERTAG_MODELS ==
  { [typeId |-> 45, reference |-> Ref1541, name |-> <<77, 54, 51>>],
    [typeId |-> 41, reference |-> Ref1520, name |-> <<70, 54, 51>>] }

IsPrefix(p, s) == Len(p) <= Len(s) /\ SubSeq(s, 1, Len(p)) = p

HasModelByType(typeId) == \E m \in POWERTAG_MODELS : m.typeId = typeId

getModelByType(typeId) == CHOOSE m \in POWERTAG_MODELS : m.typeId = typeId

HasModelByReference(ref) == \E m \in POWERTAG_MODELS : IsPrefix(m.reference, ref)

getModelByReference(ref) ==
  CHOOSE m \in POWERTAG_MODELS : IsPrefix(m.reference, ref)

\* ------------------------------------------------------------------------
\* readPanelServerDeviceAddresses: decoding of the four chunks.
\* ------------------------------------------------------------------------
\* Register count and start register of the i-th (0-based) table read.
ChunkCount_AllFull(i) == ChunkRegs

ChunkCount(i) == IF i < 3 THEN ChunkRegs ELSE LastChunkRegs

ChunkStart(i) == REG_PAS_DEVICE_ADDRESS + i * ChunkRegs

regOffset(slot) == (slot - 1) * SlotRegs

chunkIndex(slot) == regOffset(slot) \div ChunkRegs

indexInChunk_NoMod(slot) == regOffset(slot) * 2

indexInChunk(slot) == (regOffset(slot) % ChunkRegs) * 2

IsOccupied_Only0(unitId) == unitId # 0

IsOccupied(unitId) == unitId # 0 /\ unitId # 65535

SlotReadable(chunks, slot) ==
  CanReadUInt16BE(chunks[chunkIndex(slot) + 1], indexInChunk(slot))

SlotUnitId(chunks, slot) ==
  ReadUInt16BE(chunks[chunkIndex(slot) + 1], indexInChunk(slot))

OccupiedEntry(e) == IsOccupied(e[2])

\* The result of the decoding loop: it throws at the first slot whose
\* register lies outside the chunk received, else it is the list of
\* <<slot, unitId>> of the occupied slots in ascending slot order (the
\* iteration order of the Map).
DecodeAddresses(chunks) ==
  IF \E slot \in 1..SlotCount : ~SlotReadable(chunks, slot)
  THEN [threw |-> TRUE, map |-> <<>>]
  ELSE [threw |-> FALSE,
        map |-> SelectSeq([slot \in 1..SlotCount |-> <<slot, SlotUnitId(chunks, slot)>>],
                          OccupiedEntry)]

\* ------------------------------------------------------------------------
\* The gateway: the responses it may give.
\* ------------------------------------------------------------------------
ProbeSlotsIn(i) == {slot \in ProbeSlots : chunkIndex(slot) = i}

\* The registers of table chunk i when the probed slots hold g[slot].
ChunkRegisters(i, g) ==
  [k \in 1..ChunkCount(i) |->
     LET r == i * ChunkRegs + (k - 1)
         slot == (r \div SlotRegs) + 1
     IN  IF r % SlotRegs # 0 THEN Filler
         ELSE IF slot \in DOMAIN g THEN g[slot] ELSE 0]

NonZero(g) == Cardinality({slot \in DOMAIN g : g[slot] # 0})

ChunkBuffers(i, room) ==
  { RegsToBytes(ChunkRegisters(i, g)) :
      g \in {h \in [ProbeSlotsIn(i) -> {0} \cup SlotVals] : NonZero(h) <= room} }
  \cup { RegsToBytes(SubSeq(ChunkRegisters(i, <<>>), 1, ShortRegs)) }

\* Number of slot registers of a received chunk that are not 0.
NonZeroSlots(buf) ==
  Cardinality({k \in 0..((Len(buf) \div (2 * SlotRegs)) - 1) :
                 ReadUInt16BE(buf, k * 2 * SlotRegs) # 0})

RefBuffers ==
  { Pad(<<>>, 2 * RefRegs), Pad(<<32, 32>>, 2 * RefRegs), Pad(Ref1541, 2 * RefRegs),
    Pad(<<32>> \o Ref1520 \o <<32>>, 2 * RefRegs), Pad(<<65, 57, 88>>, 2 * RefRegs) }

NameBuffers == { Pad(<<>>, 2 * NameRegs), Pad(<<75>>, 2 * NameRegs) }


\* ------------------------------------------------------------------------
\* State.
\* ------------------------------------------------------------------------
VARIABLES
  pc,          \* where discoverDevices waits: "connecting", "table", "ref",
               \* "psname", "type", "scanname"; or "done" / "raised"
  sock,        \* the net.Socket: "connecting", "open", "failed", "destroyed"
  unitSel,     \* client._unitId
  queue,       \* requests issued on the client and not yet completed (FIFO)
  chunks,      \* results of the table reads that Promise.all has collected
  addressMap,  \* addressMap of discoverViaPanelServer, as <<slot, unitId>> list
  slotIdx,     \* position of its for-loop in addressMap
  psList,      \* devices of discoverViaPanelServer
  curType,     \* type id of modelConfig while the name read is awaited
  rangeIdx,    \* which scanUnitRange call is running (index in ScanRanges)
  scanUnit,    \* unitId of its for-loop
  consecutiveTimeouts,
  scanDevs,    \* devices of scanUnitRange
  rangeResults,\* the lists returned by the scanUnitRange calls so far
  devices,     \* the list discoverDevices returns
  raisedBy,    \* what discoverDevices raised with
  psOutcome,   \* history: "none", "threw" or "returned"
  racy,        \* history: setUnitId was called with a request in flight
  issuedClosed,\* history: a request was issued on a destroyed socket
  rangeReqs,   \* history: device-type reads issued by the running scanUnitRange
  rangeAllFail,\* history: every device-type read it completed has failed
  typeIssued,  \* history: a device-type read was issued
  lastResp,    \* history: the response the last step handled
  psLog, \* history: the slot map decoded and what each reference read resolved to
  fresh, \* history: the same range scan run on a fresh session, fed the same answers
  lastEnded    \* history: the scanUnitRange call that returned in the last step

\* A device's operations (lib/ModbusHelpers), on the device's own session.
VARIABLES
  pollPc,      \* "idle", "waiting" (at the await), "returned" or "failed"
  pollKind,    \* which function runs: "energy", "heattag", "control2di",
               \* "controlio" or "write"
  voltageMode, \* argument of readAllRegisters: "L-N" or "L-L"
  on,          \* argument of writeControlIOOutput
  pollQueue,   \* requests issued on the device's client, not yet completed
  pollResp,    \* what Promise.all has collected for the running call
  snapshot,    \* the value the call returned
  pollCount,   \* calls started so far
  issued,      \* history: the requests the running call has issued
  pollFailed   \* history: a request of the running call has failed

pollVars ==
  << pollPc, pollKind, voltageMode, on, pollQueue, pollResp, snapshot,
     pollCount, issued, pollFailed >>

\* validateGateway: every call has its own promise, probe socket and timer.
VARIABLES
  vCalls       \* the calls so far, in call order, each a record of
               \*   host, port: the arguments
               \*   pc: the promise, "pending", "resolved" or "rejected"
               \*   sock: the probe socket, "connecting" or "destroyed"
               \*   timer: the 5000 ms timer, "armed", "cleared" or "fired"
               \*   error: the Error the promise was rejected with
               \*   ran: history, the callbacks that have run

validateVars == << vCalls >>

\* onPair: one pairing session.
VARIABLES
  gatewaySettings, \* the closure variable of onPair: NoSettings (null) or the data
  pairHandlers,    \* the gateway_settings calls so far, in call order, each a record of
                   \*   data: the argument
                   \*   call: its validateGateway call (index in vCalls)
                   \*   pc: "validating" (at await validateGateway), "nextview" (at
                   \*       await session.nextView()), "returned" or "rejected"
                   \*   error: the Error it rejected with
  pairValidated,   \* history: the settings whose last settled validateGateway call resolved
  pairFailed,      \* history: the settings whose last settled validateGateway call rejected
  listOutcome,     \* what the last list_devices call did
  pairDiscovered,  \* history: the settings discoverDevices was called with
  pairCalls        \* handler calls so far, of both handlers

pairVars ==
  << gatewaySettings, pairHandlers, pairValidated, pairFailed, listOutcome,
     pairDiscovered, pairCalls >>

vars ==
  << pollVars, validateVars, pairVars, pc, sock, unitSel, queue, chunks, addressMap, slotIdx, psList, curType,
     rangeIdx, scanUnit, consecutiveTimeouts, scanDevs, rangeResults, devices,
     raisedBy, psOutcome, racy, issuedClosed, rangeReqs, rangeAllFail,
     typeIssued, lastResp, psLog, fresh,
     lastEnded >>

NoChunks == [i \in 0..3 |-> [got |-> FALSE, buf |-> <<>>]]
\* kind, outcome and value of a response, the unit id its request carried and
\* consecutiveTimeouts when it arrived.
NoSnapshot == [kind |-> "none"]
NoSettings == [address |-> "null", port |-> 0]
NoList == [kind |-> "none", message |-> "", target |-> NoSettings]
NoError == [text |-> "", host |-> "", sep |-> "", port |-> 0, detail |-> ""]
NoResp == [kind |-> "none", ok |-> TRUE, err |-> "", val |-> 0, unit |-> 0, before |-> 0]
NoLog == [decoded |-> FALSE, map |-> <<>>, refs |-> <<>>]
NoFresh ==
  [ on |-> FALSE, pc |-> "", unitSel |-> 0, queue |-> <<>>, curType |-> 0,
    rangeIdx |-> 0, scanUnit |-> 0, consecutiveTimeouts |-> 0, scanDevs |-> <<>>,
    rangeResults |-> <<>>, devices |-> <<>>, rangeReqs |-> 0, rangeAllFail |-> FALSE ]
NoRange == [idx |-> 0, reqs |-> 0, allFail |-> FALSE, early |-> FALSE, cons |-> 0]

\* The state as one record, so that the code's functions are operators from
\* state to state.
Cur ==
  [ pc |-> pc, sock |-> sock, unitSel |-> unitSel, queue |-> queue,
    chunks |-> chunks, addressMap |-> addressMap, slotIdx |-> slotIdx,
    psList |-> psList, curType |-> curType, rangeIdx |-> rangeIdx,
    scanUnit |-> scanUnit, consecutiveTimeouts |-> consecutiveTimeouts,
    scanDevs |-> scanDevs, rangeResults |-> rangeResults, devices |-> devices,
    raisedBy |-> raisedBy, psOutcome |-> psOutcome, racy |-> racy,
    issuedClosed |-> issuedClosed, rangeReqs |-> rangeReqs,
    rangeAllFail |-> rangeAllFail, typeIssued |-> typeIssued,
    lastResp |-> lastResp, psLog |-> psLog, fresh |-> fresh,
    lastEnded |-> lastEnded ]

Set(n) ==
  /\ pc' = n.pc /\ sock' = n.sock /\ unitSel' = n.unitSel /\ queue' = n.queue
  /\ chunks' = n.chunks /\ addressMap' = n.addressMap /\ slotIdx' = n.slotIdx
  /\ psList' = n.psList /\ curType' = n.curType /\ rangeIdx' = n.rangeIdx
  /\ scanUnit' = n.scanUnit /\ consecutiveTimeouts' = n.consecutiveTimeouts
  /\ scanDevs' = n.scanDevs /\ rangeResults' = n.rangeResults
  /\ devices' = n.devices /\ raisedBy' = n.raisedBy /\ psOutcome' = n.psOutcome
  /\ racy' = n.racy /\ issuedClosed' = n.issuedClosed /\ rangeReqs' = n.rangeReqs
  /\ rangeAllFail' = n.rangeAllFail /\ typeIssued' = n.typeIssued
  /\ lastResp' = n.lastResp
  /\ psLog' = n.psLog
  /\ fresh' = n.fresh
  /\ lastEnded' = n.lastEnded
  /\ UNCHANGED << pollVars, validateVars, pairVars >>

Init ==
  /\ pc = "connecting" /\ sock = "connecting" /\ unitSel = InitialUnit
  /\ queue = <<>> /\ chunks = NoChunks /\ addressMap = <<>> /\ slotIdx = 0
  /\ psList = <<>> /\ curType = 0 /\ rangeIdx = 0 /\ scanUnit = 0
  /\ consecutiveTimeouts = 0 /\ scanDevs = <<>> /\ rangeResults = <<>>
  /\ devices = <<>> /\ raisedBy = "" /\ psOutcome = "none" /\ racy = FALSE
  /\ issuedClosed = FALSE /\ rangeReqs = 0 /\ rangeAllFail = FALSE
  /\ typeIssued = FALSE
  /\ psLog = NoLog
  /\ fresh = NoFresh
  /\ lastResp = NoResp /\ lastEnded = NoRange
  /\ pollPc = "idle" /\ pollKind = "" /\ voltageMode = "L-N" /\ on = FALSE
  /\ pollQueue = <<>> /\ pollResp = <<>> /\ snapshot = NoSnapshot
  /\ pollCount = 0 /\ issued = <<>> /\ pollFailed = FALSE
  /\ vCalls = <<>>
  /\ gatewaySettings = NoSettings /\ pairHandlers = <<>> /\ pairValidated = {}
  /\ pairFailed = {} /\ listOutcome = NoList /\ pairDiscovered = <<>>
  /\ pairCalls = 0

\* ------------------------------------------------------------------------
\* The client: setUnitId and the issue of a request.
\* ------------------------------------------------------------------------
setUnitId_IfIdle(s, unitId) ==
  IF s.queue = <<>> THEN [s EXCEPT !.unitSel = unitId] ELSE s

setUnitId(s, unitId) ==
  [s EXCEPT !.unitSel = unitId, !.racy = @ \/ s.queue # <<>>]

\* A request carries the unit id selected when it is issued.
readHoldingRegisters(s, kind, reg, count) ==
  [s EXCEPT !.queue = Append(@, [kind |-> kind, unit |-> s.unitSel,
                                 reg |-> reg, count |-> count]),
            !.issuedClosed = @ \/ s.sock = "destroyed"]

readDeviceType(s) ==
  readHoldingRegisters([s EXCEPT !.typeIssued = TRUE], "type", REG_DEVICE_TYPE, 1)

readDeviceName(s) == readHoldingRegisters(s, "name", REG_DEVICE_NAME, NameRegs)

readCommercialReference(s) ==
  readHoldingRegisters(s, "ref", REG_COMMERCIAL_REF, RefRegs)

\* The four reads readPanelServerDeviceAddresses hands to Promise.all.
IssueTableReads(s) ==
  LET s0 == readHoldingRegisters(s, "table", ChunkStart(0), ChunkCount(0))
      s1 == readHoldingRegisters(s0, "table", ChunkStart(1), ChunkCount(1))
      s2 == readHoldingRegisters(s1, "table", ChunkStart(2), ChunkCount(2))
  IN  readHoldingRegisters(s2, "table", ChunkStart(3), ChunkCount(3))

\* ------------------------------------------------------------------------
\* discoverDevices: its exits.
\* ------------------------------------------------------------------------
Finally_Leak(s) == s

\* finally { socket.destroy() }
Finally(s) == [s EXCEPT !.sock = "destroyed"]

Return(s, list) == Finally([s EXCEPT !.pc = "done", !.devices = list])

Throw(s, why) == Finally([s EXCEPT !.pc = "raised", !.raisedBy = why])

buildDeviceEntry_NoFallback(unitId, typeId, deviceName) ==
  [unitId |-> unitId, typeId |-> typeId, name |-> deviceName]

\* name: deviceName || `${modelConfig.name} (${unitId})`
buildDeviceEntry(unitId, typeId, deviceName) ==
  [ unitId |-> unitId, typeId |-> typeId,
    name |-> IF deviceName # <<>> THEN deviceName
             ELSE getModelByType(typeId).name \o <<32, 40>> \o Digits(unitId) \o <<41>> ]

RECURSIVE Concat(_)
Concat(lists) == IF lists = <<>> THEN <<>> ELSE Head(lists) \o Concat(Tail(lists))


\* ------------------------------------------------------------------------
\* scanUnitRange.
\* ------------------------------------------------------------------------
ConsecutiveAfter_NoReset(cons, resp) == IF resp.ok THEN cons ELSE cons + 1

ConsecutiveAfter_CountEmpty(cons, resp) ==
  IF resp.ok /\ resp.val # 0 /\ resp.val # 65535 THEN 0 ELSE cons + 1

\* consecutiveTimeouts after the device-type read of one unit id:
\* reset when readDeviceType returned, incremented in the catch.
ConsecutiveAfter(cons, resp) == IF resp.ok THEN 0 ELSE cons + 1

ShouldStop_Late(cons, max) == cons > max

\* if (consecutiveTimeouts >= maxConsecutiveTimeouts) break
ShouldStop(cons, max) == cons >= max

\* if (typeId === 0 || typeId === 65535) continue
IsNoDevice(typeId) == typeId = 0 \/ typeId = 65535

RECURSIVE ScanEnter(_, _)
RECURSIVE ScanLoop(_, _, _)
RECURSIVE ScanLeave(_, _)

\* The body of the loop up to its first await: setUnitId, readDeviceType.
ScanIssue(s, unitId) ==
  readDeviceType(setUnitId([s EXCEPT !.pc = "type", !.scanUnit = unitId,
                                     !.rangeReqs = @ + 1], unitId))

\* The loop test at unitId; stop: the body before it took the break.
ScanLoop(s, unitId, stop) ==
  IF ~stop /\ unitId < ScanRanges[s.rangeIdx].endId
  THEN ScanIssue(s, unitId)
  ELSE ScanLeave(s, stop)

ScanLeave_StopAll(s, stop) ==
  LET s1 == [s EXCEPT !.rangeResults = Append(@, s.scanDevs),
                      !.lastEnded = [idx |-> s.rangeIdx, reqs |-> s.rangeReqs,
                                     allFail |-> s.rangeAllFail, early |-> stop,
                                     cons |-> s.consecutiveTimeouts]]
  IN  IF s.rangeIdx < Len(ScanRanges) /\ ~stop
      THEN ScanEnter(s1, s.rangeIdx + 1)
      ELSE Return(s1, Concat(s1.rangeResults))

\* scanUnitRange returns; discoverDevices calls the next one, or returns the
\* concatenation [...smartlink, ...lower, ...upper].
ScanLeave(s, stop) ==
  LET s1 == [s EXCEPT !.rangeResults = Append(@, s.scanDevs),
                      !.lastEnded = [idx |-> s.rangeIdx, reqs |-> s.rangeReqs,
                                     allFail |-> s.rangeAllFail, early |-> stop,
                                     cons |-> s.consecutiveTimeouts]]
  IN  IF s.rangeIdx < Len(ScanRanges)
      THEN ScanEnter(s1, s.rangeIdx + 1)
      ELSE Return(s1, Concat(s1.rangeResults))

\* The call scanUnitRange(client, settings, startId, endId, max) number r.
ScanEnter(s, r) ==
  ScanLoop([s EXCEPT !.rangeIdx = r, !.consecutiveTimeouts = 0, !.scanDevs = <<>>,
                     !.rangeReqs = 0, !.rangeAllFail = TRUE],
           ScanRanges[r].startId, FALSE)

\* The completion of readDeviceType: resp.ok with resp.val = typeId, or a
\* rejection.
ScanAfterType(s, resp) ==
  LET cons == ConsecutiveAfter(s.consecutiveTimeouts, resp)
      s1 == [s EXCEPT !.consecutiveTimeouts = cons,
                      !.rangeAllFail = @ /\ ~resp.ok]
  IN  IF ~resp.ok
      THEN ScanLoop(s1, s.scanUnit + 1, ShouldStop(cons, ScanRanges[s.rangeIdx].max))
      ELSE IF IsNoDevice(resp.val) \/ ~HasModelByType(resp.val)
      THEN ScanLoop(s1, s.scanUnit + 1, FALSE)
      ELSE readDeviceName([s1 EXCEPT !.pc = "scanname", !.curType = resp.val])

\* The completion of readDeviceName in scanUnitRange: a rejection leaves
\* deviceName = ''.
ScanAfterName(s, deviceName) ==
  ScanLoop([s EXCEPT !.scanDevs = Append(@, buildDeviceEntry(s.scanUnit, s.curType, deviceName)),
                     !.curType = 0],
           s.scanUnit + 1, FALSE)

\* ------------------------------------------------------------------------
\* discoverViaPanelServer and the fallback of discoverDevices.
\* ------------------------------------------------------------------------
TryPanelServer_NoCatch(r) == r

\* try { devices = await discoverViaPanelServer() } catch { } with
\* devices = [] before it.
TryPanelServer(r) == IF r.threw THEN [threw |-> FALSE, devices |-> <<>>] ELSE r

NeedsRangeScan_Always(devs) == TRUE

\* if (devices.length === 0)
NeedsRangeScan(devs) == Len(devs) = 0

\* discoverViaPanelServer has returned r.devices or thrown.
AfterPanelServer(s, r) ==
  LET t == TryPanelServer(r)
      s1 == [s EXCEPT !.psOutcome = IF r.threw THEN "threw" ELSE "returned",
                      !.chunks = NoChunks, !.addressMap = <<>>, !.slotIdx = 0,
                      !.psList = r.devices, !.curType = 0]
  IN  IF t.threw THEN Throw(s1, "panelServer")
      ELSE IF NeedsRangeScan(t.devices) THEN ScanEnter(s1, 1)
      ELSE Return(s1, t.devices)

\* A session that has just connected and has issued nothing.
FreshSession ==
  [ pc |-> "connecting", sock |-> "open", unitSel |-> InitialUnit, queue |-> <<>>,
    chunks |-> NoChunks, addressMap |-> <<>>, slotIdx |-> 0, psList |-> <<>>,
    curType |-> 0, rangeIdx |-> 0, scanUnit |-> 0, consecutiveTimeouts |-> 0,
    scanDevs |-> <<>>, rangeResults |-> <<>>, devices |-> <<>>, raisedBy |-> "",
    psOutcome |-> "none", racy |-> FALSE, issuedClosed |-> FALSE, rangeReqs |-> 0,
    rangeAllFail |-> FALSE, typeIssued |-> FALSE, lastResp |-> NoResp,
    psLog |-> NoLog, fresh |-> NoFresh, lastEnded |-> NoRange ]

\* What a range scan leaves visible: its position, its lists, its request.
ScanView(s) ==
  [ on |-> TRUE, pc |-> s.pc, unitSel |-> s.unitSel, queue |-> s.queue,
    curType |-> s.curType, rangeIdx |-> s.rangeIdx, scanUnit |-> s.scanUnit,
    consecutiveTimeouts |-> s.consecutiveTimeouts, scanDevs |-> s.scanDevs,
    rangeResults |-> s.rangeResults, devices |-> s.devices,
    rangeReqs |-> s.rangeReqs, rangeAllFail |-> s.rangeAllFail ]

\* The fresh session in the state v, its request completed.
FreshCompleted(v) ==
  [ FreshSession EXCEPT
      !.pc = v.pc, !.unitSel = v.unitSel, !.queue = Tail(v.queue),
      !.curType = v.curType, !.rangeIdx = v.rangeIdx, !.scanUnit = v.scanUnit,
      !.consecutiveTimeouts = v.consecutiveTimeouts, !.scanDevs = v.scanDevs,
      !.rangeResults = v.rangeResults, !.devices = v.devices,
      !.rangeReqs = v.rangeReqs, !.rangeAllFail = v.rangeAllFail ]

\* The real run n, the fresh session having handled the same answer.
WithFreshType(n, resp) ==
  [n EXCEPT !.fresh = IF fresh.on THEN ScanView(ScanAfterType(FreshCompleted(fresh), resp))
                      ELSE fresh]

WithFreshName(n, deviceName) ==
  [n EXCEPT !.fresh = IF fresh.on THEN ScanView(ScanAfterName(FreshCompleted(fresh), deviceName))
                      ELSE fresh]

\* discoverViaPanelServer throws; from here on the fresh session runs the
\* three scanUnitRange calls alongside.
PSThrow(s) ==
  [AfterPanelServer(s, [threw |-> TRUE, devices |-> <<>>])
     EXCEPT !.fresh = ScanView(ScanEnter(FreshSession, 1))]

\* The for-loop over addressMap arrives at entry i.
PSLoop(s, i) ==
  IF i <= Len(s.addressMap)
  THEN readCommercialReference(
         setUnitId([s EXCEPT !.pc = "ref", !.slotIdx = i], s.addressMap[i][2]))
  ELSE AfterPanelServer(s, [threw |-> FALSE, devices |-> s.psList])

\* setUnitId(client, 255) and readPanelServerDeviceAddresses up to its await.
PSEnter(s) == IssueTableReads(setUnitId([s EXCEPT !.pc = "table"], GatewayUnit))

SlotFailure_Abort(s) == PSThrow(s)

SlotFailure_Retry(s) == PSLoop(s, s.slotIdx)

\* The catch of the loop body: the slot is skipped.
SlotFailure(s) == PSLoop(s, s.slotIdx + 1)

\* Promise.all has all four chunks: the decoding loop, then the slot loop.
PSAfterTable(s) ==
  LET d == DecodeAddresses([i \in 1..4 |-> s.chunks[i - 1].buf])
  IN  IF d.threw THEN PSThrow(s)
      ELSE PSLoop([s EXCEPT !.addressMap = d.map, !.psList = <<>>,
                            !.psLog = [decoded |-> TRUE, map |-> d.map, refs |-> <<>>]], 1)

\* The reference read succeeded, is not empty and names a known model.
ResolvedRef(r) ==
  r.ok /\ parseAsciiBuffer(r.buf) # <<>> /\ HasModelByReference(parseAsciiBuffer(r.buf))

\* The type id of the model a reference read resolved to, 0 if it did not.
ResolvedType(r) ==
  IF ResolvedRef(r) THEN getModelByReference(parseAsciiBuffer(r.buf)).typeId ELSE 0

\* The completion of readCommercialReference.
PSAfterRef(s0, resp) ==
  LET s == [s0 EXCEPT !.psLog.refs = Append(@, ResolvedType(resp))]
  IN  IF ~resp.ok THEN SlotFailure(s)
      ELSE LET reference == parseAsciiBuffer(resp.buf)
           IN  IF reference = <<>> \/ ~HasModelByReference(reference)
               THEN PSLoop(s, s.slotIdx + 1)
               ELSE readDeviceName([s EXCEPT !.pc = "psname",
                                             !.curType = getModelByReference(reference).typeId])

PSAfterName_SlotAsUnit(s, deviceName) ==
  PSLoop([s EXCEPT !.psList = Append(@, buildDeviceEntry(s.addressMap[s.slotIdx][1],
                                                          s.curType, deviceName)),
                   !.curType = 0],
         s.slotIdx + 1)

\* The completion of readDeviceName in discoverViaPanelServer.
PSAfterName(s, deviceName) ==
  PSLoop([s EXCEPT !.psList = Append(@, buildDeviceEntry(s.addressMap[s.slotIdx][2],
                                                          s.curType, deviceName)),
                   !.curType = 0],
         s.slotIdx + 1)


\* ------------------------------------------------------------------------
\* Actions: the events of the run.
\* ------------------------------------------------------------------------
Event(kind) == [NoResp EXCEPT !.kind = kind]

Failure(kind, err) == [NoResp EXCEPT !.kind = kind, !.ok = FALSE, !.err = err]

\* The state in which the continuation of the head request runs.
Completed(resp) ==
  [Cur EXCEPT !.queue = Tail(@),
              !.lastResp = [resp EXCEPT !.unit = Head(queue).unit,
                                        !.before = IF resp.kind = "type"
                                                   THEN consecutiveTimeouts ELSE 0],
              !.psLog = IF psOutcome = "none" THEN @ ELSE NoLog,
              !.lastEnded = NoRange]

\* socket.connect's callback: the connection promise resolves and the code
\* runs up to the await of the table reads.
ConnectOk ==
  /\ pc = "connecting"
  /\ Set(PSEnter([Cur EXCEPT !.sock = "open", !.lastResp = Event("connect")]))

\* socket 'error' before the connection: reject(err).
ConnectError ==
  /\ pc = "connecting"
  /\ Set(Throw([Cur EXCEPT !.sock = "failed",
                           !.lastResp = Failure("connect", "error")], "connectError"))

\* The 10 s timer: socket.destroy() and reject.
ConnectTimeout ==
  /\ pc = "connecting"
  /\ Set(Throw([Cur EXCEPT !.sock = "destroyed",
                           !.lastResp = Failure("connect", "timeout")], "connectTimeout"))

\* Number of the table read a request is (0-based).
ChunkOf(rq) == (rq.reg - REG_PAS_DEVICE_ADDRESS) \div ChunkRegs

ReceivedNonZero ==
  LET got == {i \in 0..3 : chunks[i].got}
      RECURSIVE Sum(_)
      Sum(S) == IF S = {} THEN 0
                ELSE LET i == CHOOSE j \in S : TRUE
                     IN  NonZeroSlots(chunks[i].buf) + Sum(S \ {i})
  IN  Sum(got)

\* A table read fails.  The first failure rejects Promise.all, so
\* discoverViaPanelServer throws; a later one finds it settled.
TableReadFails ==
  /\ queue # <<>> /\ Head(queue).kind = "table"
  /\ \E err \in FailKinds :
       LET s == Completed(Failure("table", err))
       IN  Set(IF pc = "table" THEN PSThrow(s) ELSE s)

\* A table read is answered.  The fourth answer resolves Promise.all.
TableReadAnswers ==
  /\ queue # <<>> /\ Head(queue).kind = "table"
  /\ LET i == ChunkOf(Head(queue))
         s == Completed(Event("table"))
     IN  IF pc # "table" THEN Set(s)
         ELSE \E buf \in ChunkBuffers(i, MaxOccupied - ReceivedNonZero) :
                LET s1 == [s EXCEPT !.chunks[i] = [got |-> TRUE, buf |-> buf]]
                IN  Set(IF \A j \in 0..3 : s1.chunks[j].got
                        THEN PSAfterTable(s1) ELSE s1)

RefReadFails ==
  /\ queue # <<>> /\ Head(queue).kind = "ref"
  /\ \E err \in FailKinds : Set(PSAfterRef(Completed(Failure("ref", err)),
                                            [ok |-> FALSE, buf |-> <<>>]))

RefReadAnswers ==
  /\ queue # <<>> /\ Head(queue).kind = "ref"
  /\ \E buf \in RefBuffers : Set(PSAfterRef(Completed(Event("ref")),
                                            [ok |-> TRUE, buf |-> buf]))

PSNameReadFails ==
  /\ queue # <<>> /\ Head(queue).kind = "name" /\ pc = "psname"
  /\ \E err \in FailKinds : Set(PSAfterName(Completed(Failure("name", err)), <<>>))

PSNameReadAnswers ==
  /\ queue # <<>> /\ Head(queue).kind = "name" /\ pc = "psname"
  /\ \E buf \in NameBuffers :
       Set(PSAfterName(Completed(Event("name")), parseAsciiBuffer(buf)))

\* Devices found by the scan so far.
FoundByScan == Len(Concat(rangeResults)) + Len(scanDevs)

MayHoldDevice ==
  /\ scanUnit - ScanRanges[rangeIdx].startId < PopulatedSpan
  /\ FoundByScan < MaxDevices

TypeReadFails ==
  /\ queue # <<>> /\ Head(queue).kind = "type"
  /\ \E err \in FailKinds :
       Set(WithFreshType(ScanAfterType(Completed(Failure("type", err)),
                                       [ok |-> FALSE, val |-> 0]),
                         [ok |-> FALSE, val |-> 0]))

TypeReadAnswers ==
  /\ queue # <<>> /\ Head(queue).kind = "type"
  /\ \E typeId \in TypeVals :
       /\ HasModelByType(typeId) => MayHoldDevice
       /\ Set(WithFreshType(ScanAfterType(Completed([Event("type") EXCEPT !.val = typeId]),
                                          [ok |-> TRUE, val |-> typeId]),
                            [ok |-> TRUE, val |-> typeId]))

ScanNameReadFails ==
  /\ queue # <<>> /\ Head(queue).kind = "name" /\ pc = "scanname"
  /\ \E err \in FailKinds :
       Set(WithFreshName(ScanAfterName(Completed(Failure("name", err)), <<>>), <<>>))

ScanNameReadAnswers ==
  /\ queue # <<>> /\ Head(queue).kind = "name" /\ pc = "scanname"
  /\ \E buf \in NameBuffers :
       Set(WithFreshName(ScanAfterName(Completed(Event("name")), parseAsciiBuffer(buf)),
                         parseAsciiBuffer(buf)))

Next ==
  \/ ConnectOk
  \/ ConnectError
  \/ ConnectTimeout
  \/ TableReadFails
  \/ TableReadAnswers
  \/ RefReadFails
  \/ RefReadAnswers
  \/ PSNameReadFails
  \/ PSNameReadAnswers
  \/ TypeReadFails
  \/ TypeReadAnswers
  \/ ScanNameReadFails
  \/ ScanNameReadAnswers

Spec == Init /\ [][Next]_vars

\* ------------------------------------------------------------------------
\* lib/ModbusHelpers: the polls of a device and the output command.
\* ------------------------------------------------------------------------
discoveryVars ==
  << pc, sock, unitSel, queue, chunks, addressMap, slotIdx, psList, curType,
     rangeIdx, scanUnit, consecutiveTimeouts, scanDevs, rangeResults, devices,
     raisedBy, psOutcome, racy, issuedClosed, rangeReqs, rangeAllFail,
     typeIssued, lastResp, psLog, fresh, lastEnded >>

PollKinds == {"energy", "heattag", "control2di", "controlio"}
VoltageModes == {"L-N", "L-L"}

Block(reg, count) == [reg |-> reg, count |-> count]

\* The reads each poll hands to Promise.all, in order.
PollBlocks(kind, mode) ==
  CASE kind = "energy" ->
         << Block(REG_CURRENT_L1, 6),
            Block(IF mode = "L-N" THEN REG_VOLTAGE_LN_1 ELSE REG_VOLTAGE_LL_1, 6),
            Block(REG_POWER_L1, 8), Block(REG_POWER_FACTOR, 2),
            Block(REG_FREQUENCY, 2), Block(REG_TEMPERATURE, 2),
            Block(REG_ENERGY_TOTAL, 4) >>
    [] kind = "heattag" ->
         << Block(REG_HEATTAG_TEMP, 2), Block(REG_HEATTAG_HUMIDITY, 2),
            Block(REG_HEATTAG_ALARM, 1) >>
    [] kind = "control2di" ->
         << Block(REG_DI1_STATUS, 1), Block(REG_DI2_STATUS, 1) >>
    [] kind = "controlio" ->
         << Block(REG_DI1_STATUS, 1), Block(REG_DO1_STATUS, 1) >>

\* buf.readFloatBE(off): the float is kept as the four bytes that encode it.
ReadFloatBE(buf, off) == SubSeq(buf, off + 1, off + 4)

\* buf.readInt16BE(off): two's complement.
ReadInt16BE(buf, off) ==
  IF buf[off + 1] >= 128 THEN ReadUInt16BE(buf, off) - 65536
  ELSE ReadUInt16BE(buf, off)

\* buf.readBigInt64BE(off): the signed 64-bit integer of the eight bytes from
\* off, two's complement, big-endian.  The value is
\* w[1] * 2^48 + w[2] * 2^32 + w[3] * 2^16 + w[4], kept as its four 16-bit
\* words w, the first of them signed.
ReadBigInt64BE(buf, off) ==
  << ReadInt16BE(buf, off), ReadUInt16BE(buf, off + 2),
     ReadUInt16BE(buf, off + 4), ReadUInt16BE(buf, off + 6) >>

\* The object each poll returns from the buffers of its reads.
Assemble(kind, bufs) ==
  CASE kind = "energy" ->
         [ kind |-> kind,
           currentL1 |-> ReadFloatBE(bufs[1], 0), currentL2 |-> ReadFloatBE(bufs[1], 4),
           currentL3 |-> ReadFloatBE(bufs[1], 8),
           voltagePh1 |-> ReadFloatBE(bufs[2], 0), voltagePh2 |-> ReadFloatBE(bufs[2], 4),
           voltagePh3 |-> ReadFloatBE(bufs[2], 8),
           powerL1 |-> ReadFloatBE(bufs[3], 0), powerL2 |-> ReadFloatBE(bufs[3], 4),
           powerL3 |-> ReadFloatBE(bufs[3], 8), totalPower |-> ReadFloatBE(bufs[3], 12),
           powerFactor |-> ReadFloatBE(bufs[4], 0),
           frequency |-> ReadFloatBE(bufs[5], 0),
           temperature |-> ReadFloatBE(bufs[6], 0),
           \* Number(wh) / per
           totalEnergy |-> [wh |-> ReadBigInt64BE(bufs[7], 0), per |-> 1000] ]
    [] kind = "heattag" ->
         [ kind |-> kind,
           temperature |-> ReadFloatBE(bufs[1], 0),
           humidity |-> [float |-> ReadFloatBE(bufs[2], 0), times |-> 100],
           alarmLevel |-> ReadUInt16BE(bufs[3], 0) ]
    [] kind = "control2di" ->
         [ kind |-> kind,
           di1Status |-> (ReadUInt16BE(bufs[1], 0) = 0),
           di2Status |-> (ReadUInt16BE(bufs[2], 0) = 0) ]
    [] kind = "controlio" ->
         [ kind |-> kind,
           di1Status |-> (ReadUInt16BE(bufs[1], 0) = 0),
           outputStatus |-> (ReadUInt16BE(bufs[2], 0) = 1) ]

OutputCommand_ZeroOne(cmd) == IF cmd THEN 1 ELSE 0

\* on ? 2 : 1
OutputCommand(cmd) == IF cmd THEN 2 ELSE 1

\* A device answers a read of count registers with 2 * count bytes; every
\* register holds v.
PollBuffer(count, v) == RegsToBytes([i \in 1..count |-> v])

PollRequest(id, idx, fc, reg, count, value) ==
  [poll |-> id, idx |-> idx, fc |-> fc, reg |-> reg, count |-> count, value |-> value]

\* A poll is called: all its reads are issued before the await.
PollStart ==
  /\ pollPc # "waiting" /\ pollCount < MaxPolls
  /\ \E kind \in PollKinds, mode \in VoltageModes :
       LET blocks == PollBlocks(kind, mode)
           reqs == [i \in 1..Len(blocks) |->
                      PollRequest(pollCount + 1, i, "read", blocks[i].reg,
                                  blocks[i].count, 0)]
       IN  /\ kind # "energy" => mode = "L-N"
           /\ pollKind' = kind /\ voltageMode' = mode
           /\ pollQueue' = pollQueue \o reqs
           /\ issued' = reqs
           /\ pollResp' = [i \in 1..Len(blocks) |-> [got |-> FALSE, buf |-> <<>>]]
  /\ pollPc' = "waiting" /\ pollCount' = pollCount + 1
  /\ snapshot' = NoSnapshot /\ pollFailed' = FALSE
  /\ UNCHANGED << on, discoveryVars, validateVars, pairVars >>

\* writeControlIOOutput is called.
WriteStart ==
  /\ pollPc # "waiting" /\ pollCount < MaxPolls
  /\ \E cmd \in BOOLEAN :
       LET req == PollRequest(pollCount + 1, 1, "write", REG_DO1_CMD, 1,
                              OutputCommand(cmd))
       IN  /\ on' = cmd
           /\ pollQueue' = Append(pollQueue, req)
           /\ issued' = <<req>>
  /\ pollKind' = "write" /\ pollResp' = <<[got |-> FALSE, buf |-> <<>>]>>
  /\ pollPc' = "waiting" /\ pollCount' = pollCount + 1
  /\ snapshot' = NoSnapshot /\ pollFailed' = FALSE
  /\ UNCHANGED << voltageMode, discoveryVars, validateVars, pairVars >>

Awaited(req) == req.poll = pollCount /\ pollPc = "waiting"

\* Promise.all fulfils when every read has.
AllGot(resp) == \A i \in 1..Len(resp) : resp[i].got

RejectedBy_None(req) == FALSE

\* Promise.all rejects with the first rejection of one of its reads.
RejectedBy(req) == Awaited(req)

\* The device answers the oldest request, a read.
BlockAnswers ==
  /\ pollQueue # <<>> /\ Head(pollQueue).fc = "read"
  /\ \E v \in PollVals :
       LET req == Head(pollQueue)
           resp == [pollResp EXCEPT ![req.idx] =
                      [got |-> TRUE, buf |-> PollBuffer(req.count, v)]]
       IN  IF Awaited(req)
           THEN /\ pollResp' = resp
                /\ IF AllGot(resp)
                   THEN /\ pollPc' = "returned"
                        /\ snapshot' = Assemble(pollKind,
                                          [i \in 1..Len(resp) |-> resp[i].buf])
                   ELSE UNCHANGED << pollPc, snapshot >>
           ELSE UNCHANGED << pollResp, pollPc, snapshot >>
  /\ pollQueue' = Tail(pollQueue)
  /\ UNCHANGED << pollKind, voltageMode, on, pollCount, issued, pollFailed,
                  discoveryVars, validateVars, pairVars >>

\* The device acknowledges the oldest request, a write.
WriteAnswers ==
  /\ pollQueue # <<>> /\ Head(pollQueue).fc = "write"
  /\ IF Awaited(Head(pollQueue))
     THEN /\ pollPc' = "returned"
          /\ pollResp' = <<[got |-> TRUE, buf |-> <<>>]>>
     ELSE UNCHANGED << pollPc, pollResp >>
  /\ pollQueue' = Tail(pollQueue)
  /\ UNCHANGED << pollKind, voltageMode, on, snapshot, pollCount, issued,
                  pollFailed, discoveryVars, validateVars, pairVars >>

\* The oldest request times out or is answered with a Modbus exception.
RequestFails ==
  /\ pollQueue # <<>>
  /\ LET req == Head(pollQueue)
     IN  /\ pollFailed' = (pollFailed \/ req.poll = pollCount)
         /\ IF RejectedBy(req)
            THEN pollPc' = "failed" /\ UNCHANGED pollResp
            ELSE /\ UNCHANGED pollPc
                 /\ pollResp' = IF req.poll = pollCount /\ pollPc = "waiting"
                                THEN [pollResp EXCEPT ![req.idx] =
                                        [got |-> TRUE, buf |-> PollBuffer(req.count, 0)]]
                                ELSE pollResp
  /\ pollQueue' = Tail(pollQueue)
  /\ UNCHANGED << pollKind, voltageMode, on, snapshot, pollCount, issued,
                  discoveryVars, validateVars, pairVars >>

PollNext ==
  \/ PollStart
  \/ WriteStart
  \/ BlockAnswers
  \/ WriteAnswers
  \/ RequestFails

PollSpec == Init /\ [][PollNext]_vars


\* ------------------------------------------------------------------------
\* Properties.
\* ------------------------------------------------------------------------
Empty16 == {0, 65535}

Exited == pc \in {"done", "raised"}

\* Every device the scan has collected so far.
ScanCollected == Concat(rangeResults) \o scanDevs

\* Counter of the scan after the last step: of the call that just returned,
\* or of the running one.
CounterAfter == IF lastEnded.idx # 0 THEN lastEnded.cons ELSE consecutiveTimeouts

\* C1: the range scan runs if and only if the Panel-Server strategy has
\* ended with zero devices (returned none or thrown); when it returned at
\* least one device no device-type read is issued and the list returned by
\* discoverDevices is the Panel-Server list.
C1_ScanIffPanelServerEmpty ==
  /\ typeIssued <=> (psOutcome # "none" /\ psList = <<>>)
  /\ (pc = "done" /\ psList # <<>>) => (~typeIssued /\ devices = psList)

C1_Witness == pc = "done" /\ psOutcome = "returned" /\ Len(psList) = 2 /\ ~typeIssued

\* C2: setUnitId is never called while a request issued on the session is
\* still in flight.
C2_NoUnitChangeInFlight == ~racy

\* C3: discoverDevices raises only on a failed or timed-out connect; once
\* connected it returns a list whatever the reads do.
C3_RaisesOnlyOnConnect ==
  pc = "raised" =>
    /\ raisedBy \in {"connectError", "connectTimeout"}
    /\ lastResp.kind = "connect" /\ ~lastResp.ok
    /\ psOutcome = "none"

C3_Witness == pc = "done" /\ psOutcome = "threw" /\ devices = <<>> /\ ~lastResp.ok

\* C4: on every exit of discoverDevices the socket is destroyed, and no
\* request is ever issued on a destroyed socket.
C4_SocketClosedOnExit ==
  /\ Exited => sock = "destroyed"
  /\ ~issuedClosed
  /\ Exited => queue = <<>>

C4_Witness == pc = "raised" /\ raisedBy = "connectError" /\ sock = "destroyed"

\* C5: the returned list never holds two devices with the same unit id.
C5_NoDuplicateUnitIds ==
  \A i, j \in 1..Len(devices) : i # j => devices[i].unitId # devices[j].unitId

\* C6: a scanUnitRange call with threshold 3 whose device-type reads all
\* timed out or failed has issued exactly 3 requests when it returns.
C6_AllFailingScanIssuesThree ==
  (lastEnded.idx # 0 /\ ScanRanges[lastEnded.idx].max = 3 /\ lastEnded.allFail)
    => (lastEnded.reqs = 3 /\ lastEnded.early)

C6_Witness ==
  /\ lastEnded.idx = 2 /\ lastEnded.allFail /\ lastEnded.reqs = 3
  /\ ScanRanges[2].endId - ScanRanges[2].startId = 50

\* C7: a failed device-type read increments the counter, an answered one
\* resets it to zero (also when the type resolves to no model), and a
\* scanUnitRange call stops early exactly when the counter reaches its
\* threshold: while it runs the counter is below the threshold, a call that
\* stopped early ended on a failure with the counter at the threshold, and a
\* call that did not has read every unit id of its range.
C7_CounterAndEarlyStop ==
  /\ lastResp.kind = "type" =>
       CounterAfter = IF lastResp.ok THEN 0 ELSE lastResp.before + 1
  /\ pc \in {"type", "scanname"} =>
       consecutiveTimeouts < ScanRanges[rangeIdx].max
  /\ lastEnded.idx # 0 =>
       LET rng == ScanRanges[lastEnded.idx]
       IN  /\ lastEnded.early <=> lastEnded.cons >= rng.max
           /\ lastEnded.early =>
                (lastEnded.cons = rng.max /\ lastResp.kind = "type" /\ ~lastResp.ok)
           /\ ~lastEnded.early => lastEnded.reqs = rng.endId - rng.startId

C7_Witness ==
  /\ rangeIdx = 2 /\ pc = "type"
  /\ lastResp.kind = "type" /\ lastResp.ok /\ lastResp.val = 9999
  /\ lastResp.before = 2 /\ consecutiveTimeouts = 0

\* C8: a device-type read that returns 0 or 65535 leaves the counter at
\* zero, does not stop the scan early, and yields no device for its unit id
\* (no name read is issued for it).
C8_EmptyTypeNotCounted ==
  (lastResp.kind = "type" /\ lastResp.ok /\ lastResp.val \in Empty16) =>
    /\ CounterAfter = 0
    /\ ~lastEnded.early
    /\ pc # "scanname"
    /\ \A i \in 1..Len(ScanCollected) : ScanCollected[i].unitId # lastResp.unit
    /\ \A i \in 1..Len(devices) : devices[i].unitId # lastResp.unit

C8_Witness ==
  /\ rangeIdx = 2 /\ lastResp.kind = "type" /\ lastResp.ok /\ lastResp.val = 65535
  /\ lastResp.before = 2 /\ consecutiveTimeouts = 0 /\ scanDevs = <<>>

\* C9: 0 and 65535 are empty: the slot map holds no slot whose unit id is 0
\* or 65535, no such unit id is selected for a slot, and no device of any
\* list has unit id or type id 0 or 65535.
DeviceNotEmpty(d) == d.unitId \notin Empty16 /\ d.typeId \notin Empty16

C9_EmptyValuesNeverEmitted ==
  /\ \A i \in 1..Len(addressMap) : addressMap[i][2] \notin Empty16
  /\ pc \in {"ref", "psname"} => unitSel \notin Empty16
  /\ \A i \in 1..Len(psList) : DeviceNotEmpty(psList[i])
  /\ \A i \in 1..Len(ScanCollected) : DeviceNotEmpty(ScanCollected[i])
  /\ \A i \in 1..Len(devices) : DeviceNotEmpty(devices[i])
  /\ pc = "scanname" => curType \notin Empty16

C9_Witness ==
  /\ pc = "ref" /\ Len(addressMap) = 1
  /\ \E slot \in ProbeSlots :
       /\ SlotUnitId([i \in 1..4 |-> chunks[i - 1].buf], slot) = 65535
       /\ addressMap[1][1] # slot

\* C10: a failed commercial-reference read skips only its slot: the
\* devices emitted so far are kept, and if a later slot exists the loop goes
\* on to it (its unit id is selected and its reference read issued),
\* otherwise discoverViaPanelServer returns the devices emitted.
C10_SlotFailureSkipsOnlySlot ==
  [][ (lastResp'.kind = "ref" /\ ~lastResp'.ok) =>
        /\ psList' = psList
        /\ IF slotIdx < Len(addressMap)
           THEN /\ pc' = "ref" /\ slotIdx' = slotIdx + 1 /\ addressMap' = addressMap
                /\ unitSel' = addressMap[slotIdx + 1][2]
                /\ Len(queue') = 1 /\ queue'[1].kind = "ref"
                /\ queue'[1].unit = addressMap[slotIdx + 1][2]
           ELSE /\ psOutcome' = "returned"
                /\ psList # <<>> => (pc' = "done" /\ devices' = psList) ]_vars

C10_Witness ==
  /\ lastResp.kind = "ref" /\ ~lastResp.ok
  /\ pc = "ref" /\ slotIdx = 3 /\ Len(psList) = 1

\* C11: when the table read succeeds, discoverViaPanelServer emits exactly
\* one device per slot of the slot map whose reference read succeeded, was
\* not empty and resolved to a model, in slot order, with the slot's unit id
\* and the model's type id; every slot of the map has been visited when it
\* returns, and a non-empty list is what discoverDevices returns.
RECURSIVE ExpectedPS(_, _, _)
ExpectedPS(map, refs, i) ==
  IF i > Len(refs) THEN <<>>
  ELSE (IF refs[i] # 0
        THEN << [unitId |-> map[i][2], typeId |-> refs[i]] >>
        ELSE <<>>) \o ExpectedPS(map, refs, i + 1)

Identity(list) == [i \in 1..Len(list) |-> [unitId |-> list[i].unitId, typeId |-> list[i].typeId]]

C11_OneDevicePerResolvedSlot ==
  psLog.decoded =>
    LET exp == ExpectedPS(psLog.map, psLog.refs, 1)
    IN  /\ Len(psLog.refs) <= Len(psLog.map)
        /\ IF pc = "psname"
           THEN /\ exp # <<>> /\ psLog.refs[Len(psLog.refs)] # 0
                /\ Identity(psList) = SubSeq(exp, 1, Len(exp) - 1)
           ELSE Identity(psList) = exp
        /\ psOutcome = "returned" => Len(psLog.refs) = Len(psLog.map)
        /\ (psOutcome = "returned" /\ psList # <<>>) => (pc = "done" /\ devices = psList)

C11_Witness ==
  /\ pc = "done" /\ psLog.decoded /\ Len(psLog.map) = 1 /\ psLog.map[1][2] = 42
  /\ psLog.refs = <<45>> /\ lastResp.kind = "name"
  /\ Len(devices) = 1 /\ devices[1].unitId = 42 /\ devices[1].typeId = 45

\* The list the strategy that handled the last response is building, once
\* it has been returned included.
EmittedSoFar == IF typeIssued THEN ScanCollected ELSE psList

NameReadFailed == lastResp.kind = "name" /\ ~lastResp.ok

\* The device of the unit whose name read failed is the last one emitted,
\* and in the range scan the failure leaves the counter at zero and does not
\* stop the scan.
NameFailureKeepsDevice ==
  /\ EmittedSoFar # <<>>
  /\ EmittedSoFar[Len(EmittedSoFar)].unitId = lastResp.unit
  /\ typeIssued => (CounterAfter = 0 /\ ~lastEnded.early)
  /\ pc = "done" => devices = EmittedSoFar

\* C12 as stated: after a failed device-name read the device is emitted
\* with an empty name.
C12_NameFailureEmitsEmptyName ==
  NameReadFailed =>
    (NameFailureKeepsDevice /\ EmittedSoFar[Len(EmittedSoFar)].name = <<>>)

\* C12 amended: after a failed device-name read the device is emitted, named
\* by the fallback "<model name> (<unitId>)", which is never empty.
C12_NameFailureEmitsFallbackName ==
  NameReadFailed =>
    /\ NameFailureKeepsDevice
    /\ LET d == EmittedSoFar[Len(EmittedSoFar)]
       IN  /\ d.name = getModelByType(d.typeId).name \o <<32, 40>> \o Digits(d.unitId) \o <<41>>
           /\ d.name # <<>>

C12_Witness ==
  /\ NameReadFailed /\ typeIssued /\ rangeIdx = 2 /\ pc = "type"
  /\ ScanCollected # <<>> /\ ScanCollected[Len(ScanCollected)].unitId = 100
  /\ ScanCollected[Len(ScanCollected)].name = <<77, 54, 51, 32, 40, 49, 48, 48, 41>>

\* C13: after a failed address-table read the range scan goes exactly as on
\* a fresh session given the same answers: it is at the same place with the
\* same counter and lists, its outstanding request is the request the fresh
\* session has outstanding (same register, count and unit id, so the same
\* gateway answers it alike), and it returns the same list.
C13_FallbackScanAsFresh ==
  fresh.on =>
    /\ psOutcome = "threw"
    /\ pc = fresh.pc /\ unitSel = fresh.unitSel /\ curType = fresh.curType
    /\ rangeIdx = fresh.rangeIdx /\ scanUnit = fresh.scanUnit
    /\ consecutiveTimeouts = fresh.consecutiveTimeouts
    /\ scanDevs = fresh.scanDevs /\ rangeResults = fresh.rangeResults
    /\ devices = fresh.devices
    /\ IF pc = "done" THEN queue = <<>> /\ fresh.queue = <<>>
       ELSE /\ queue # <<>> /\ Len(fresh.queue) = 1
            /\ queue[Len(queue)] = fresh.queue[1]
            /\ \A i \in 1..(Len(queue) - 1) : queue[i].kind = "table"

C13_Witness ==
  /\ fresh.on /\ pc = "done" /\ racy
  /\ Len(devices) = 2 /\ devices = fresh.devices

\* The requests of the running call that are still outstanding.
OwnOutstanding == {i \in 1..Len(pollQueue) : pollQueue[i].poll = pollCount}

\* C14: a poll returns a snapshot only when every one of its block reads has
\* completed successfully; once one of them has failed the poll has failed and
\* there is no snapshot, partial or otherwise.
C14_PollAllOrNothing ==
  pollKind \in PollKinds =>
    /\ pollPc = "returned" =>
         /\ ~pollFailed /\ OwnOutstanding = {}
         /\ \A i \in 1..Len(pollResp) :
              pollResp[i].got /\ Len(pollResp[i].buf) = 2 * issued[i].count
         /\ Len(pollResp) = Len(PollBlocks(pollKind, voltageMode))
         /\ snapshot = Assemble(pollKind, [i \in 1..Len(pollResp) |-> pollResp[i].buf])
    /\ pollFailed => pollPc = "failed"
    /\ pollPc # "returned" => snapshot = NoSnapshot

\* A poll of seven reads has failed on its third, with two answers collected.
C14_Witness ==
  /\ pollKind = "energy" /\ voltageMode = "L-L" /\ pollPc = "failed" /\ pollFailed
  /\ pollResp[1].got /\ pollResp[2].got /\ ~pollResp[3].got
  /\ Len(pollQueue) = 4 /\ snapshot = NoSnapshot

RECURSIVE RangeUnits(_)
\* Unit ids in the first r sub-ranges.
RangeUnits(r) ==
  IF r = 0 THEN 0
  ELSE RangeUnits(r - 1) + (ScanRanges[r].endId - ScanRanges[r].startId)

ScanUnits == RangeUnits(Len(ScanRanges))

\* Unit ids the range scan has not reached yet.
UnitsAhead ==
  IF rangeIdx = 0 THEN ScanUnits
  ELSE (ScanUnits - RangeUnits(rangeIdx)) + (ScanRanges[rangeIdx].endId - 1 - scanUnit)

\* Most requests the run can still issue from where it stands.
FutureIssues ==
  CASE pc = "connecting" -> 4 + 2 * SlotCount + 2 * ScanUnits
    [] pc = "table" -> 2 * SlotCount + 2 * ScanUnits
    [] pc = "ref" -> 1 + 2 * (Len(addressMap) - slotIdx) + 2 * ScanUnits
    [] pc = "psname" -> 2 * (Len(addressMap) - slotIdx) + 2 * ScanUnits
    [] pc = "type" -> 1 + 2 * UnitsAhead
    [] pc = "scanname" -> 2 * UnitsAhead
    [] OTHER -> 0

\* Completions the run can still see: of its connect attempt, of the requests
\* outstanding and of those it can still issue.
Potential == (IF pc = "connecting" THEN 1 ELSE 0) + Len(queue) + FutureIssues

\* The run waits for something that has an outcome: its connect attempt, or
\* the oldest request, which is the one it awaits unless table reads of the
\* failed strategy are still ahead of it.
Awaiting ==
  \/ pc = "connecting" /\ queue = <<>>
  \/ /\ queue # <<>>
     /\ \/ Head(queue).kind = "table"
        \/ Head(queue).kind = "ref" /\ pc = "ref"
        \/ Head(queue).kind = "name" /\ pc \in {"psname", "scanname"}
        \/ Head(queue).kind = "type" /\ pc = "type"
     /\ queue[Len(queue)].kind = "table" => pc = "table"

\* C15: a run that has not ended always has a connect attempt or a request
\* outstanding whose outcome it can take; every step takes the outcome of the
\* connect attempt or of the oldest request, and lowers the number of
\* completions still possible, which starts at 1 + 4 + 2 * 99 + 2 * 100 and is
\* never negative. The run therefore ends, with a list or the connection
\* error, after at most 402 requests.
C15_BoundedTransactions ==
  /\ [](/\ Potential >= 0
        /\ Potential <= 1 + 4 + 2 * 99 + 2 * 100
        /\ Len(addressMap) <= SlotCount /\ ScanUnits = 100
        /\ ~Exited => Awaiting
        /\ Exited => queue = <<>>
        /\ pc = "raised" => raisedBy \in {"connectError", "connectTimeout"})
  /\ [][/\ ~Exited
        /\ Potential' < Potential
        /\ pc # "connecting" =>
             /\ Len(queue') >= Len(queue) - 1
             /\ SubSeq(queue', 1, Len(queue) - 1) = Tail(queue)]_vars

\* Full fallback: the table was read, its slots gave no device and all three
\* sub-ranges were scanned to their end.
C15_Witness ==
  /\ pc = "done" /\ psOutcome = "returned" /\ typeIssued
  /\ lastEnded.idx = 3 /\ ~lastEnded.early /\ lastEnded.reqs = 30
  /\ Len(devices) = MaxDevices /\ Potential = 0

\* Most registers one read-holding-registers request may ask for.
MaxRegsPerRead == 125

\* The requests outstanding are the four table reads, just issued.
TableJustIssued == lastResp.kind = "connect" /\ lastResp.ok

\* C16: no read-holding-registers request asks for more than 125 registers,
\* in discovery or in a poll; the address table is read as four reads of 125,
\* 125, 125 and 120 registers, each starting where the one before ends, from
\* register 504 to the end of the 495 registers of the 99 slots.
C16_ReadsWithinLimit ==
  /\ \A i \in 1..Len(queue) : queue[i].count \in 1..MaxRegsPerRead
  /\ \A kind \in PollKinds, mode \in VoltageModes :
       \A i \in 1..Len(PollBlocks(kind, mode)) :
         PollBlocks(kind, mode)[i].count \in 1..MaxRegsPerRead
  /\ TableJustIssued =>
       /\ Len(queue) = 4
       /\ \A i \in 1..4 : queue[i].kind = "table" /\ queue[i].unit = GatewayUnit
       /\ [i \in 1..4 |-> queue[i].count] = <<125, 125, 125, 120>>
       /\ queue[1].reg = 504
       /\ \A i \in 1..3 : queue[i + 1].reg = queue[i].reg + queue[i].count
       /\ queue[4].reg + queue[4].count = 504 + 495
       /\ SlotCount * SlotRegs = 495

C16_Witness ==
  /\ TableJustIssued /\ pc = "table" /\ Len(queue) = 4
  /\ queue[4].reg = 879 /\ queue[4].count = 120

\* ------------------------------------------------------------------------
\* validateGateway.
\* ------------------------------------------------------------------------
\* `Connection timeout to ${host}:${port}`
TimeoutError(host, port) ==
  [text |-> "Connection timeout to ", host |-> host, sep |-> ":", port |-> port,
   detail |-> ""]

\* `Cannot connect to ${host}:${port}: ${err.message}`
ConnectFailure(host, port, message) ==
  [text |-> "Cannot connect to ", host |-> host, sep |-> ":", port |-> port,
   detail |-> message]

ClearTimeout_Skip(timer) == timer

\* clearTimeout(timeout)
ClearTimeout(timer) == IF timer = "armed" THEN "cleared" ELSE timer

\* The executor of the promise: socket created, timer set, connect started.
validateGateway(host, port) ==
  [host |-> host, port |-> port, pc |-> "pending", sock |-> "connecting",
   timer |-> "armed", error |-> NoError, ran |-> <<>>]

\* resolve() or reject(error) is called by a callback: only the first call
\* settles the promise.
Settle(call, callback, outcome, error) ==
  [call EXCEPT !.ran = Append(@, callback),
               !.pc = IF call.pc = "pending" THEN outcome ELSE @,
               !.error = IF call.pc = "pending" THEN error ELSE @]

\* The connect callback: clearTimeout, socket.destroy(), resolve().
ConnectCallback(call) ==
  Settle([call EXCEPT !.timer = ClearTimeout(@), !.sock = "destroyed"],
         "connect", "resolved", NoError)

\* The 'error' handler: clearTimeout, socket.destroy(), reject(...).
ErrorHandler(call, message) ==
  Settle([call EXCEPT !.timer = ClearTimeout(@), !.sock = "destroyed"],
         "error", "rejected", ConnectFailure(call.host, call.port, message))

\* The timer's callback: socket.destroy(), reject(...).
TimerCallback(call) ==
  Settle([call EXCEPT !.timer = "fired", !.sock = "destroyed"],
         "timeout", "rejected", TimeoutError(call.host, call.port))

\* The Error session.nextView() may reject with.
ViewError ==
  [text |-> "view closed", host |-> "", sep |-> "", port |-> 0, detail |-> ""]

\* gateway_settings once validateGateway has resolved: 'Gateway validation
\* successful' is logged and session.nextView() is called and awaited.
GatewayValidated(handler) == [handler EXCEPT !.pc = "nextview"]

\* gateway_settings once validateGateway has rejected: the await throws and
\* the handler rejects with that Error.
GatewayRejected(handler, error) == [handler EXCEPT !.pc = "rejected", !.error = error]

\* The gateway_settings calls that wait for validateGateway call i.
AwaitingCall(i) ==
  {h \in 1..Len(pairHandlers) :
     pairHandlers[h].call = i /\ pairHandlers[h].pc = "validating"}

\* What the settling of call i resumes, in the same turn of the event loop:
\* the gateway_settings call that awaits its promise, if there is one.
Resume(i, call) ==
  LET resolved == call.pc = "resolved"
      settled == {pairHandlers[h].data : h \in AwaitingCall(i)}
  IN  /\ pairHandlers' =
           [h \in 1..Len(pairHandlers) |->
              IF h \notin AwaitingCall(i) THEN pairHandlers[h]
              ELSE IF resolved THEN GatewayValidated(pairHandlers[h])
              ELSE GatewayRejected(pairHandlers[h], call.error)]
      /\ pairValidated' = IF resolved THEN pairValidated \cup settled
                          ELSE pairValidated \ settled
      /\ pairFailed' = IF resolved THEN pairFailed \ settled
                       ELSE pairFailed \cup settled
      /\ UNCHANGED << gatewaySettings, listOutcome, pairDiscovered, pairCalls >>

\* validateGateway is called.
ValidateCall ==
  /\ Len(vCalls) < MaxValidations
  /\ \E host \in Hosts, port \in Ports :
       vCalls' = Append(vCalls, validateGateway(host, port))
  /\ UNCHANGED << pollVars, discoveryVars, pairVars >>

\* The connect callback of a call runs; a destroyed socket emits nothing.
ValidateConnected ==
  /\ \E i \in 1..Len(vCalls) :
       /\ vCalls[i].sock = "connecting"
       /\ vCalls' = [vCalls EXCEPT ![i] = ConnectCallback(@)]
       /\ Resume(i, ConnectCallback(vCalls[i]))
  /\ UNCHANGED << pollVars, discoveryVars >>

\* The 'error' handler of a call runs.
ValidateSocketError ==
  /\ \E i \in 1..Len(vCalls), message \in SocketErrors :
       /\ vCalls[i].sock = "connecting"
       /\ vCalls' = [vCalls EXCEPT ![i] = ErrorHandler(@, message)]
       /\ Resume(i, ErrorHandler(vCalls[i], message))
  /\ UNCHANGED << pollVars, discoveryVars >>

\* The timer's callback of a call runs.
ValidateTimeout ==
  /\ \E i \in 1..Len(vCalls) :
       /\ vCalls[i].timer = "armed"
       /\ vCalls' = [vCalls EXCEPT ![i] = TimerCallback(@)]
       /\ Resume(i, TimerCallback(vCalls[i]))
  /\ UNCHANGED << pollVars, discoveryVars >>

ValidateNext ==
  \/ ValidateCall
  \/ ValidateConnected
  \/ ValidateSocketError
  \/ ValidateTimeout

ValidateSpec == Init /\ [][ValidateNext]_vars

\* C17: of the connect callback, the error handler and the timer callback of
\* one validateGateway call exactly one ever runs, so the promise is settled
\* by one call; it is resolved only by the connect callback, which then ran
\* before the timer fired and before any error, and otherwise rejected with an
\* Error whose message holds the host and the port of the call; once settled
\* the socket is destroyed and the timer is no longer armed.  This holds of
\* every call, whatever the other calls do meanwhile.
C17_ValidateSettlesOnce ==
  \A i \in 1..Len(vCalls) :
    LET c == vCalls[i]
    IN  /\ Len(c.ran) <= 1
        /\ c.pc = "pending" <=> c.ran = <<>>
        /\ c.pc = "pending" => c.sock = "connecting" /\ c.timer = "armed"
        /\ c.pc = "resolved" =>
             c.ran = <<"connect">> /\ c.timer = "cleared" /\ c.error = NoError
        /\ c.pc = "rejected" =>
             /\ c.ran \in {<<"error">>, <<"timeout">>}
             /\ c.ran = <<"timeout">> <=> c.timer = "fired"
             /\ c.error.host = c.host /\ c.error.sep = ":" /\ c.error.port = c.port
             /\ c.error.text = IF c.ran = <<"timeout">> THEN "Connection timeout to "
                               ELSE "Cannot connect to "
        /\ c.pc \in {"resolved", "rejected"} => c.sock = "destroyed" /\ c.timer # "armed"

\* A second call, rejected by the error handler, while the first has timed out.
C17_Witness ==
  /\ Len(vCalls) = 2
  /\ vCalls[1].pc = "rejected" /\ vCalls[1].ran = <<"timeout">>
  /\ vCalls[2].pc = "rejected" /\ vCalls[2].ran = <<"error">>
  /\ vCalls[2].error = [text |-> "Cannot connect to ", host |-> "gateway.local",
                        sep |-> ":", port |-> 502, detail |-> "ECONNREFUSED"]
  /\ vCalls[2].sock = "destroyed" /\ vCalls[2].timer = "cleared"

\* C18: a writeControlIOOutput call issues one request, a single-register
\* write to register 37051 of value 2 when on is true and 1 when it is false;
\* no write of another value or to another register is ever outstanding, and
\* the polls issue no write.
C18_OutputCommandWrite ==
  /\ pollKind = "write" =>
       /\ Len(issued) = 1
       /\ issued[1].fc = "write" /\ issued[1].reg = 37051 /\ issued[1].count = 1
       /\ issued[1].value = (IF on THEN 2 ELSE 1)
       /\ Cardinality(OwnOutstanding) = (IF pollPc = "waiting" THEN 1 ELSE 0)
  /\ pollKind \in PollKinds => \A i \in 1..Len(issued) : issued[i].fc = "read"
  /\ \A i \in 1..Len(pollQueue) :
       pollQueue[i].fc = "write" =>
         pollQueue[i].reg = 37051 /\ pollQueue[i].value \in {1, 2}

\* The output was switched on and the write acknowledged.
C18_Witness ==
  /\ pollKind = "write" /\ on /\ pollPc = "returned" /\ ~pollFailed
  /\ issued[1].value = 2 /\ pollQueue = <<>>

\* The unit ids of a device list.
UnitIds(list) == [i \in 1..Len(list) |-> list[i].unitId]

\* A list of unit ids within lo..hi, strictly ascending.
AscendingWithin(ids, lo, hi) ==
  /\ \A i \in 1..Len(ids) : ids[i] \in lo..hi
  /\ \A i \in 1..(Len(ids) - 1) : ids[i] < ids[i + 1]

\* C19: the range scan probes 150..169 with threshold 10, then 100..149 with
\* threshold 3, then 170..199 with threshold 3: within a sub-range one unit id
\* after the other from its first, with a counter that is 0 at the first probe
\* and stays below the threshold while the sub-range runs; when a sub-range
\* ends, early or not, the next one starts at its first unit id; the list
\* returned is the three sub-range lists concatenated in that order.
C19_ThreeSubRangesInOrder ==
  LET lo == <<150, 100, 170>>
      hi == <<169, 149, 199>>
      th == <<10, 3, 3>>
  IN  typeIssued =>
        /\ rangeIdx \in 1..3
        /\ scanUnit \in lo[rangeIdx]..hi[rangeIdx]
        /\ rangeReqs = scanUnit - lo[rangeIdx] + 1
        /\ AscendingWithin(UnitIds(scanDevs), lo[rangeIdx], scanUnit)
        /\ \A r \in 1..Len(rangeResults) :
             AscendingWithin(UnitIds(rangeResults[r]), lo[r], hi[r])
        /\ pc \in {"type", "scanname"} =>
             /\ Len(rangeResults) = rangeIdx - 1
             /\ consecutiveTimeouts < th[rangeIdx]
             /\ consecutiveTimeouts < rangeReqs
        /\ lastEnded.idx # 0 =>
             /\ lastEnded.early => lastEnded.cons = th[lastEnded.idx]
             /\ ~lastEnded.early => lastEnded.reqs = hi[lastEnded.idx] - lo[lastEnded.idx] + 1
             /\ lastEnded.idx < 3 =>
                  /\ pc = "type" /\ rangeIdx = lastEnded.idx + 1
                  /\ scanUnit = lo[rangeIdx] /\ unitSel = lo[rangeIdx]
                  /\ consecutiveTimeouts = 0 /\ scanDevs = <<>>
             /\ lastEnded.idx = 3 => pc = "done"
        /\ pc = "done" =>
             /\ Len(rangeResults) = 3
             /\ devices = rangeResults[1] \o rangeResults[2] \o rangeResults[3]

\* The first sub-range found a device at 150 and then stopped early; the
\* second has started at 100.
C19_Witness ==
  /\ lastEnded.idx = 1 /\ lastEnded.early /\ lastEnded.reqs = 11
  /\ rangeIdx = 2 /\ scanUnit = 100 /\ pc = "type"
  /\ UnitIds(rangeResults[1]) = <<150>>

\* The table as one buffer: the four chunks received, end to end.
FlatTable == chunks[0].buf \o chunks[1].buf \o chunks[2].buf \o chunks[3].buf

\* The map decoded from one flat table of 495 registers: slot s is occupied by
\* the value of register 5 * (s - 1) unless that is 0 or 65535.
FlatDecode(flat) ==
  SelectSeq([slot \in 1..99 |-> <<slot, ReadUInt16BE(flat, 2 * 5 * (slot - 1))>>],
            OccupiedEntry)

\* C20: for every slot 1..99 the chunk index is one of the four chunks, the
\* byte offset lies inside the registers that chunk was read with (120 for
\* the last) and the register addressed is table register 5 * (slot - 1);
\* the map decoded from four full chunks is the map of the flat table, and
\* it is the map the slot loop then works through.
C20_ChunkedEqualsFlat ==
  /\ TableJustIssued =>
     \A slot \in 1..99 :
       /\ chunkIndex(slot) \in 0..3
       /\ indexInChunk(slot) >= 0
       /\ indexInChunk(slot) + 2 <= 2 * ChunkCount(chunkIndex(slot))
       /\ ChunkStart(chunkIndex(slot)) + (indexInChunk(slot) \div 2)
            = 504 + 5 * (slot - 1)
  /\ pc \in {"ref", "psname"} =>
       /\ \A i \in 0..3 : chunks[i].got /\ Len(chunks[i].buf) = 2 * ChunkCount(i)
       /\ addressMap = psLog.map
  /\ (lastResp.kind = "table" /\ pc = "ref") =>
       /\ Len(FlatTable) = 2 * 495
       /\ addressMap = FlatDecode(FlatTable)

\* Slots at the end of the first chunk, the start of the second and the end
\* of the last.
C20_Witness ==
  /\ pc = "ref" /\ slotIdx = 1
  /\ addressMap = <<<<25, 42>>, <<26, 150>>, <<99, 42>>>>

\* ------------------------------------------------------------------------
\* onPair: the gateway_settings and list_devices handlers of one session.
\* ------------------------------------------------------------------------
\* The settings a pairing view may send: one gateway, the same address with
\* another port, and another address.
PairSettings ==
  { [address |-> "192.168.1.10", port |-> 502],
    [address |-> "192.168.1.10", port |-> 503],
    [address |-> "192.168.1.11", port |-> 502] }

\* gateway_settings up to its first await: gatewaySettings = data, then
\* validateGateway(data.address, data.port) is called.  Nothing keeps the
\* view from calling it again while an earlier call is still waiting.
GatewaySettingsCall ==
  /\ pairCalls < MaxPairCalls
  /\ \E data \in PairSettings :
       /\ gatewaySettings' = data
       /\ vCalls' = Append(vCalls, validateGateway(data.address, data.port))
       /\ pairHandlers' = Append(pairHandlers,
                                 [data |-> data, call |-> Len(vCalls) + 1,
                                  pc |-> "validating", error |-> NoError])
  /\ pairCalls' = pairCalls + 1
  /\ UNCHANGED << pairValidated, pairFailed, listOutcome, pairDiscovered,
                  pollVars, discoveryVars >>

\* session.nextView() resolves: the handler returns true.
NextViewResolves ==
  /\ \E h \in 1..Len(pairHandlers) :
       /\ pairHandlers[h].pc = "nextview"
       /\ pairHandlers' = [pairHandlers EXCEPT ![h].pc = "returned"]
  /\ UNCHANGED << gatewaySettings, pairValidated, pairFailed, listOutcome,
                  pairDiscovered, pairCalls, pollVars, validateVars, discoveryVars >>

\* session.nextView() rejects: the handler rejects with that Error.
NextViewRejects ==
  /\ \E h \in 1..Len(pairHandlers) :
       /\ pairHandlers[h].pc = "nextview"
       /\ pairHandlers' = [pairHandlers EXCEPT ![h].pc = "rejected",
                                               ![h].error = ViewError]
  /\ UNCHANGED << gatewaySettings, pairValidated, pairFailed, listOutcome,
                  pairDiscovered, pairCalls, pollVars, validateVars, discoveryVars >>

\* if (!gatewaySettings)
NotConfigured(settings) == settings = NoSettings

\* list_devices: throws 'No gateway configured' or calls
\* discoverDevices(gatewaySettings), which opens the connection.
ListDevices ==
  /\ pairCalls < MaxPairCalls
  /\ pairCalls' = pairCalls + 1
  /\ IF NotConfigured(gatewaySettings)
     THEN /\ listOutcome' = [kind |-> "error", message |-> "No gateway configured",
                             target |-> NoSettings]
          /\ UNCHANGED pairDiscovered
     ELSE /\ listOutcome' = [kind |-> "discovery", message |-> "",
                             target |-> gatewaySettings]
          /\ pairDiscovered' = Append(pairDiscovered, gatewaySettings)
  /\ UNCHANGED << gatewaySettings, pairHandlers, pairValidated, pairFailed,
                  pollVars, validateVars, discoveryVars >>

\* The handlers of the session and the callbacks of the validateGateway
\* calls they make.
PairNext ==
  \/ GatewaySettingsCall
  \/ ValidateConnected
  \/ ValidateSocketError
  \/ ValidateTimeout
  \/ NextViewResolves
  \/ NextViewRejects
  \/ ListDevices

PairSpec == Init /\ [][PairNext]_vars

\* C21 as stated: list_devices runs discovery only against settings whose
\* validation has succeeded and not failed since; with no gateway_settings
\* call before it, it fails with 'No gateway configured' and no discovery
\* is started.
C21_DiscoveryOnlyAfterValidation ==
  /\ listOutcome.kind = "discovery" =>
       /\ listOutcome.target \in pairValidated
       /\ listOutcome.target \notin pairFailed
  /\ listOutcome.kind = "error" =>
       /\ listOutcome.message = "No gateway configured"
       /\ gatewaySettings = NoSettings /\ pairDiscovered = <<>>

====
